---- MODULE Spec2Model ----
(***************************************************************************)
(* Model of the AI-EMAIL Gemini dispatcher (src/unnamed/part_000) and its  *)
(* client facade (src/services/geminiService.ts).                         *)
(*                                                                         *)
(* Texts (model completions) are sequences of lexical tokens:              *)
(*   "FJ"  the characters ```json        "FH"  the characters ```html      *)
(*   "F"   the characters ``` followed by neither label                    *)
(*   "S"   a blank                        "N"   a line break               *)
(*   "A"   a truthy JSON scalar ("x", 1)  "Z"   a falsy JSON scalar (0)    *)
(*   "{" "}" "[" "]" ","  JSON punctuation   "K"  a member key with colon  *)
(*   "DT"  <!DOCTYPE ...    "HO"  an <html ...> tag    "HC"  </html>       *)
(*   "TO"  a <table ...> tag                           "TC"  </table>      *)
(*   "HD"  a whole <h1>..<h3> element whose text holds a domain word       *)
(*   "*" "#"  that character      "P"  any other text without white space  *)
(*   "KI" "BS" "IM"  the phrases key improvements / before sending /       *)
(*   important:      "RS"  the phrase remember to set                      *)
(*   "MC"  one of the phrases here's / note: / tip: / suggestion: /        *)
(*         you could also / alternatively                                  *)
(***************************************************************************)
EXTENDS Integers, Sequences, FiniteSets, TLC

\* ------------------------------------------------------------------ bounds
MaxJsonLen == 4
MaxHtmlLen == 4
MaxElems == 3
MaxPolls == 2
MaxRequests == 2

VARIABLES jText, jPhase, jOut, hText, hPhase, hOut,
          sReq, sPc, sInvoked, sModelCalls, sCompletion, sResp,
          cPc, cFn, cOp, cLog, cRet,
          pool

jsonVars == <<jText, jPhase, jOut>>
htmlVars == <<hText, hPhase, hOut>>
serverVars == <<sReq, sPc, sInvoked, sModelCalls, sCompletion, sResp>>
clientVars == <<cPc, cFn, cOp, cLog, cRet>>
vars == <<jText, jPhase, jOut, hText, hPhase, hOut,
          sReq, sPc, sInvoked, sModelCalls, sCompletion, sResp,
          cPc, cFn, cOp, cLog, cRet, pool>>

\* a part of the system that a specification leaves out stays idle
JsonIdle ==
  /\ jText = <<>> /\ jPhase = "idle"
  /\ jOut = [ok |-> FALSE, val |-> [k |-> "none", items |-> <<>>], err |-> ""]

HtmlIdle == hText = <<>> /\ hPhase = "idle" /\ hOut = [via |-> 0, html |-> <<>>]

\* no request, no operation, no value, no response
NoReq ==
  [method |-> "", enc |-> "", body |-> "", action |-> "", payload |-> "",
   operation |-> [name |-> "", done |-> FALSE, uri |-> ""], upload |-> ""]

NoResp ==
  [status |-> 0, headers |-> {},
   body |-> [kind |-> "none", fields |-> {},
             result |-> [t |-> "undefined",
                         json |-> [k |-> "none", items |-> <<>>],
                         toks |-> <<>>,
                         op |-> [name |-> "", done |-> FALSE, uri |-> ""]],
             error |-> [text |-> "", arg |-> ""]]]

ServerIdle ==
  /\ sReq = NoReq /\ sPc = "off" /\ sInvoked = <<>> /\ sModelCalls = 0
  /\ sCompletion = <<>> /\ sResp = NoResp

NoRet ==
  [state |-> "pending", link |-> "",
   value |-> [t |-> "undefined", json |-> [k |-> "none", items |-> <<>>],
              toks |-> <<>>, op |-> [name |-> "", done |-> FALSE, uri |-> ""]]]

ClientIdle ==
  /\ cPc = "off" /\ cFn = ""
  /\ cOp = [name |-> "", done |-> FALSE, uri |-> ""]
  /\ cLog = <<>> /\ cRet = NoRet

\* no invocation of the handler in flight
PoolIdle == pool = <<>>

\* ------------------------------------------------- token and sequence help
\* every token that begins with three backticks
FenceTokens == {"F", "FJ", "FH"}

\* what the regex class \s and String.prototype.trim take for white space
IsWs(t) == t \in {"S", "N"}

RECURSIVE FindFrom(_, _, _)
\* index of the first token of s at or after i that is in T; 0 when none
FindFrom(s, i, T) ==
  IF i > Len(s) THEN 0 ELSE IF s[i] \in T THEN i ELSE FindFrom(s, i + 1, T)

RECURSIVE FindLast(_, _, _)
\* index of the last token of s at or before i that is in T; 0 when none
FindLast(s, i, T) ==
  IF i < 1 THEN 0 ELSE IF s[i] \in T THEN i ELSE FindLast(s, i - 1, T)

RECURSIVE TrimStart(_)
TrimStart(s) ==
  IF s = <<>> THEN s ELSE IF IsWs(Head(s)) THEN TrimStart(Tail(s)) ELSE s

RECURSIVE TrimEnd(_)
TrimEnd(s) ==
  IF s = <<>> THEN s
  ELSE IF IsWs(s[Len(s)]) THEN TrimEnd(SubSeq(s, 1, Len(s) - 1)) ELSE s

\* String.prototype.trim
Trim(s) == TrimEnd(TrimStart(s))

\* ------------------------------------------------------------- JSON.parse
NoVal == [k |-> "none", items |-> <<>>]
Atom(t) == [k |-> IF t = "Z" THEN "falsy" ELSE "atom", items |-> <<>>]
Arr(vs) == [k |-> "arr", items |-> vs]
Obj(vs) == [k |-> "obj", items |-> vs]
PFail == [ok |-> FALSE, v |-> NoVal, next |-> 0]
POk(v, n) == [ok |-> TRUE, v |-> v, next |-> n]
Tok(s, i) == IF i >= 1 /\ i <= Len(s) THEN s[i] ELSE "EOF"

RECURSIVE ParseValue(_, _)
RECURSIVE ParseElems(_, _, _)
RECURSIVE ParseMembers(_, _, _)

\* one JSON value starting at token i of the blank-free text s
ParseValue(s, i) ==
  CASE Tok(s, i) \in {"A", "Z"} -> POk(Atom(s[i]), i + 1)
    [] Tok(s, i) = "[" ->
         IF Tok(s, i + 1) = "]" THEN POk(Arr(<<>>), i + 2)
         ELSE ParseElems(s, i + 1, <<>>)
    [] Tok(s, i) = "{" ->
         IF Tok(s, i + 1) = "}" THEN POk(Obj(<<>>), i + 2)
         ELSE ParseMembers(s, i + 1, <<>>)
    [] OTHER -> PFail

ParseElems(s, i, acc) ==
  LET e == ParseValue(s, i) IN
  IF ~e.ok THEN PFail
  ELSE IF Tok(s, e.next) = "]" THEN POk(Arr(Append(acc, e.v)), e.next + 1)
  ELSE IF Tok(s, e.next) = "," THEN ParseElems(s, e.next + 1, Append(acc, e.v))
  ELSE PFail

ParseMembers(s, i, acc) ==
  IF Tok(s, i) # "K" THEN PFail
  ELSE LET e == ParseValue(s, i + 1) IN
       IF ~e.ok THEN PFail
       ELSE IF Tok(s, e.next) = "}" THEN POk(Obj(Append(acc, e.v)), e.next + 1)
       ELSE IF Tok(s, e.next) = "," THEN ParseMembers(s, e.next + 1, Append(acc, e.v))
       ELSE PFail

\* a function's outcome: a returned value, or a thrown Error with its message
Returned(v) == [ok |-> TRUE, val |-> v, err |-> ""]
Thrown(msg) == [ok |-> FALSE, val |-> NoVal, err |-> msg]

\* JSON.parse: white space between tokens is skipped, the whole text must be
\* one value, anything else throws a SyntaxError
JsonParse(s) ==
  LET t == SelectSeq(s, LAMBDA x : ~IsWs(x))
      r == ParseValue(t, 1)
  IN IF r.ok /\ r.next = Len(t) + 1 THEN Returned(r.v)
     ELSE Thrown("SyntaxError: Unexpected token")

\* -------------------------------------------------------- parseJsonFromText
NoMatch == [found |-> FALSE, whole |-> <<>>, group |-> <<>>]

\* FencedMatch with the group made greedy: it runs to the last three backticks
FencedMatchGreedy(text, label) ==
  LET o == FindFrom(text, 1, {label})
      c == IF o = 0 THEN 0 ELSE FindLast(text, Len(text), FenceTokens)
  IN IF c <= o THEN NoMatch
     ELSE [found |-> TRUE,
           whole |-> <<label>> \o SubSeq(text, o + 1, c - 1) \o <<"F">>,
           group |-> Trim(SubSeq(text, o + 1, c - 1))]

\* text.match(/```<label>\s*([\s\S]*?)\s*```/): the first label token that has
\* three backticks somewhere after it; the lazy group runs to the first of
\* them and the two \s* take the white space off both ends
FencedMatch(text, label) ==
  LET o == FindFrom(text, 1, {label})
      c == IF o = 0 THEN 0 ELSE FindFrom(text, o + 1, FenceTokens)
  IN IF c = 0 THEN NoMatch
     ELSE [found |-> TRUE,
           whole |-> <<label>> \o SubSeq(text, o + 1, c - 1) \o <<"F">>,
           group |-> Trim(SubSeq(text, o + 1, c - 1))]

\* text.match(/\{[\s\S]*\}/): greedy, from the first "{" to the last "}"
BraceMatch(text) ==
  LET o == FindFrom(text, 1, {"{"})
      c == FindLast(text, Len(text), {"}"})
  IN IF o = 0 \/ c < o THEN NoMatch
     ELSE [found |-> TRUE, whole |-> SubSeq(text, o, c), group |-> <<>>]

ParseJsonFromText(text) ==
  LET m1 == FencedMatch(text, "FJ")
      jsonMatch == IF m1.found THEN m1 ELSE BraceMatch(text)
  IN IF jsonMatch.found
     THEN JsonParse(IF jsonMatch.group # <<>> THEN jsonMatch.group
                    ELSE jsonMatch.whole)
     ELSE Thrown("No valid JSON found in response")

\* -------------------------------------------------- extractHtmlFromResponse
\* DocEndAt with the document running to the last </html> of the text
DocEndAtGreedy(text, p) ==
  LET ho == IF Tok(text, p) = "HO" THEN p
            ELSE IF Tok(text, p) = "DT" THEN FindFrom(text, p + 1, {"HO"})
            ELSE 0
      hc == FindLast(text, Len(text), {"HC"})
  IN IF ho = 0 \/ hc <= ho THEN 0 ELSE hc

\* text.match(/(?:<!DOCTYPE[\s\S]*?)?<html[\s\S]*?<\/html>/i) tried at p: the
\* end of the match, 0 when the regex does not match at p
DocEndAt(text, p) ==
  LET ho == IF Tok(text, p) = "HO" THEN p
            ELSE IF Tok(text, p) = "DT" THEN FindFrom(text, p + 1, {"HO"})
            ELSE 0
  IN IF ho = 0 THEN 0 ELSE FindFrom(text, ho + 1, {"HC"})

RECURSIVE DocScan(_, _)
\* the leftmost position at or after p where the regex matches
DocScan(text, p) ==
  IF p > Len(text) THEN NoMatch
  ELSE IF DocEndAt(text, p) # 0
       THEN [found |-> TRUE, whole |-> SubSeq(text, p, DocEndAt(text, p)),
             group |-> <<>>]
       ELSE DocScan(text, p + 1)

HtmlDocMatch(text) == DocScan(text, 1)

\* text.match(/(<table[\s\S]*?<\/table>)/i)
TableMatch(text) ==
  LET o == FindFrom(text, 1, {"TO"})
      c == IF o = 0 THEN 0 ELSE FindFrom(text, o + 1, {"TC"})
  IN IF c = 0 THEN NoMatch
     ELSE [found |-> TRUE, whole |-> SubSeq(text, o, c),
           group |-> SubSeq(text, o, c)]

RECURSIVE RemoveHtmlMarkers(_)
\* cleaned.replace(/```html\s*/gi, '')
RemoveHtmlMarkers(s) ==
  IF s = <<>> THEN s
  ELSE IF Head(s) = "FH" THEN RemoveHtmlMarkers(TrimStart(Tail(s)))
  ELSE <<Head(s)>> \o RemoveHtmlMarkers(Tail(s))

RECURSIVE RemoveFenceMarkers(_)
\* cleaned.replace(/```\s*/g, ''): of ```json the word json stays
RemoveFenceMarkers(s) ==
  IF s = <<>> THEN s
  ELSE IF Head(s) \in {"F", "FH"} THEN RemoveFenceMarkers(TrimStart(Tail(s)))
  ELSE IF Head(s) = "FJ" THEN <<"P">> \o RemoveFenceMarkers(Tail(s))
  ELSE <<Head(s)>> \o RemoveFenceMarkers(Tail(s))

RECURSIVE SplitLines(_, _)
\* cleaned.split('\n'), cur being the line read so far
SplitLines(s, cur) ==
  IF s = <<>> THEN <<cur>>
  ELSE IF Head(s) = "N" THEN <<cur>> \o SplitLines(Tail(s), <<>>)
  ELSE SplitLines(Tail(s), Append(cur, Head(s)))

\* the filter's predicate: the trimmed line starts with none of the markers
\* and phrases and does not contain 'remember to set'
KeepLine(line) ==
  LET trimmed == Trim(line) IN
  /\ Tok(trimmed, 1) \notin {"*", "#", "KI", "BS", "IM"}
  /\ \A k \in 1..Len(trimmed) : trimmed[k] # "RS"

RECURSIVE JoinLines(_)
\* lines.join('\n')
JoinLines(ls) ==
  IF ls = <<>> THEN <<>>
  ELSE IF Len(ls) = 1 THEN ls[1]
  ELSE ls[1] \o <<"N">> \o JoinLines(Tail(ls))

FilterLines(s) == JoinLines(SelectSeq(SplitLines(s, <<>>), KeepLine))

RECURSIVE StripEveryHeading(_)
\* StripLeadingHeading with the replacement made at every heading of the text
StripEveryHeading(s) ==
  IF s = <<>> THEN s
  ELSE IF Head(s) = "HD" THEN StripEveryHeading(TrimStart(Tail(s)))
  ELSE <<Head(s)>> \o StripEveryHeading(Tail(s))

\* cleaned.replace(/^\s*<h[1-3]...>...<\/h[1-3]>\s*/i, ''): one heading at the
\* very start of the text, with the white space around it
StripLeadingHeading(s) ==
  IF Tok(TrimStart(s), 1) = "HD" THEN TrimStart(Tail(TrimStart(s))) ELSE s

\* the fallback of extractHtmlFromResponse, lines 185-206
LineCleanup(text) ==
  Trim(StripLeadingHeading(FilterLines(RemoveFenceMarkers(RemoveHtmlMarkers(text)))))

\* ExtractHtmlFromResponse with the table looked for before the document
ExtractHtmlTableFirst(text) ==
  IF FencedMatch(text, "FH").found
  THEN [via |-> 1, html |-> Trim(FencedMatch(text, "FH").group)]
  ELSE IF TableMatch(text).found
  THEN [via |-> 3, html |-> Trim(TableMatch(text).group)]
  ELSE IF HtmlDocMatch(text).found
  THEN [via |-> 2, html |-> Trim(HtmlDocMatch(text).whole)]
  ELSE [via |-> 4, html |-> LineCleanup(text)]

\* html: the string returned; via: which of the four return statements ran
ExtractHtmlFromResponse(text) ==
  IF FencedMatch(text, "FH").found
  THEN [via |-> 1, html |-> Trim(FencedMatch(text, "FH").group)]
  ELSE IF HtmlDocMatch(text).found
  THEN [via |-> 2, html |-> Trim(HtmlDocMatch(text).whole)]
  ELSE IF TableMatch(text).found
  THEN [via |-> 3, html |-> Trim(TableMatch(text).group)]
  ELSE [via |-> 4, html |-> LineCleanup(text)]

\* ------------------------------------------- specification: HTML extraction
HtmlAlphabet ==
  {"FH", "F", "S", "N", "DT", "HO", "HC", "TO", "TC", "HD", "P", "*", "KI", "RS"}

HtmlInit ==
  /\ hText = <<>> /\ hPhase = "completing" /\ hOut = [via |-> 0, html |-> <<>>]
  /\ JsonIdle /\ ServerIdle /\ ClientIdle /\ PoolIdle

\* the model's completion grows by one token
HtmlEmit ==
  /\ hPhase = "completing"
  /\ Len(hText) < MaxHtmlLen
  /\ \E t \in HtmlAlphabet : hText' = Append(hText, t)
  /\ UNCHANGED <<hPhase, hOut>>
  /\ UNCHANGED <<jsonVars, serverVars, clientVars, pool>>

\* the completion is handed to extractHtmlFromResponse
HtmlExtract ==
  /\ hPhase = "completing"
  /\ hPhase' = "extracted"
  /\ hOut' = ExtractHtmlFromResponse(hText)
  /\ UNCHANGED hText
  /\ UNCHANGED <<jsonVars, serverVars, clientVars, pool>>

HtmlNext == HtmlEmit \/ HtmlExtract

SpecHtml == HtmlInit /\ [][HtmlNext]_vars

\* ------------------------------------------- specification: JSON extraction
JsonAlphabet == {"FJ", "F", "S", "A", "Z", "{", "}", "[", "]", ",", "K"}

JsonInit ==
  /\ jText = <<>> /\ jPhase = "completing" /\ jOut = Thrown("")
  /\ HtmlIdle /\ ServerIdle /\ ClientIdle /\ PoolIdle

\* the model's completion grows by one token
JsonEmit ==
  /\ jPhase = "completing"
  /\ Len(jText) < MaxJsonLen
  /\ \E t \in JsonAlphabet : jText' = Append(jText, t)
  /\ UNCHANGED <<jPhase, jOut>>
  /\ UNCHANGED <<htmlVars, serverVars, clientVars, pool>>

\* the completion is handed to parseJsonFromText
JsonExtract ==
  /\ jPhase = "completing"
  /\ jPhase' = "extracted"
  /\ jOut' = ParseJsonFromText(jText)
  /\ UNCHANGED jText
  /\ UNCHANGED <<htmlVars, serverVars, clientVars, pool>>

JsonNext == JsonEmit \/ JsonExtract

SpecJson == JsonInit /\ [][JsonNext]_vars

\* ------------------------------------------------------------- dispatcher
\* the case labels of the switch, lines 52-106
JsonTextActions ==
  {"generateSubjectLines", "generatePreheaders", "generateHomeQuoteProse",
   "generateAutoQuoteProse", "extractReceiptInfoFromText",
   "extractChangeInfoFromText", "generateOpportunities"}
HtmlActions == {"generateEmailBody"}
ProseActions == {"generateRateChangeExplanation"}
StubActions == {"generateHeroImage", "generateVideo", "getVideosOperation"}
FileActions ==
  {"generatePromptFromPdf", "extractQuoteFromPdf", "extractAutoQuoteFromPdf",
   "extractRenewalInfoFromPdf", "extractNewPolicyInfoFromPdf",
   "extractCancellationsFromPdf", "extractReceiptInfoFromPdf"}
Actions ==
  JsonTextActions \cup HtmlActions \cup ProseActions \cup StubActions \cup FileActions

\* the handlers whose prompt template reads a property of formData
FormDataActions ==
  {"generateSubjectLines", "generatePreheaders", "generateEmailBody",
   "generateHomeQuoteProse", "generateAutoQuoteProse"}

\* the value undefined, and what a template literal makes of an action
Undefined == "<undefined>"
ToStr(a) == IF a = Undefined THEN "undefined" ELSE a

\* JavaScript truthiness of what an upload's content can be: absent, '',
\* a zero-length Buffer, a Buffer with bytes, an object
Truthy(c) == c \notin {"undefined", "emptyString"}

NoOp == [name |-> "", done |-> FALSE, uri |-> ""]
MockUri == "https://example.com/mock-video.mp4"
NoErr == [text |-> "", arg |-> ""]
Err(text, arg) == [text |-> text, arg |-> arg]
UndefResult == [t |-> "undefined", json |-> NoVal, toks |-> <<>>, op |-> NoOp]
JsonResult(v) == [t |-> "json", json |-> v, toks |-> <<>>, op |-> NoOp]
TextResult(tag, toks) == [t |-> tag, json |-> NoVal, toks |-> toks, op |-> NoOp]
OpResult(op) == [t |-> "operation", json |-> NoVal, toks |-> <<>>, op |-> op]

NoFile == [present |-> FALSE, content |-> "undefined"]

\* lines 36-41: file.content = uploadedFile.content || uploadedFile
NormalizeFile(upload) ==
  IF upload = "none" THEN NoFile
  ELSE [present |-> TRUE, content |-> IF Truthy(upload) THEN upload ELSE "object"]

\* lines 26-47: the body read into (action, payload, file), or a throw
ParseRequest(ev) ==
  IF ev.enc = "multipart"
  THEN IF ev.body = "garbled"
       THEN [ok |-> FALSE, err |-> Err("multipart parse error", ""),
             action |-> Undefined, payload |-> "empty", file |-> NoFile]
       ELSE IF ev.payload = "garbled"
       THEN [ok |-> FALSE, err |-> Err("SyntaxError: Unexpected token", ""),
             action |-> Undefined, payload |-> "empty", file |-> NoFile]
       ELSE [ok |-> TRUE, err |-> NoErr, action |-> ev.action,
             payload |-> IF ev.payload = "absent" THEN "empty" ELSE ev.payload,
             file |-> NormalizeFile(ev.upload)]
  ELSE IF ev.body = "garbled"
       THEN [ok |-> FALSE, err |-> Err("SyntaxError: Unexpected token", ""),
             action |-> Undefined, payload |-> "empty", file |-> NoFile]
       ELSE IF ev.body = "null"
       THEN [ok |-> FALSE, err |-> Err("TypeError: Cannot read properties", ""),
             action |-> Undefined, payload |-> "empty", file |-> NoFile]
       ELSE [ok |-> TRUE, err |-> NoErr, action |-> ev.action,
             payload |-> IF ev.payload = "full" THEN "full" ELSE "empty",
             file |-> NoFile]

\* what a handler has done when it returns, throws or awaits the model
HReturn(inv, r) == [kind |-> "return", invoked |-> inv, result |-> r, error |-> NoErr]
HThrow(inv, e) == [kind |-> "throw", invoked |-> inv, result |-> UndefResult, error |-> e]
HAwait(inv) == [kind |-> "await", invoked |-> inv, result |-> UndefResult, error |-> NoErr]

\* lines 139-153: the error thrown, NoErr when the file part is built
PrepareFileForGemini(file) ==
  IF ~file.present THEN Err("No file provided", "")
  ELSE IF ~Truthy(file.content) THEN Err("File content is missing", "")
  ELSE NoErr

\* lines 288-301
GetVideosOperation(operation) ==
  [operation EXCEPT !.done = TRUE, !.uri = MockUri]

\* a handler from its call to its return, its throw or its first model call
RunHandler(action, payload, operation, file, now) ==
  CASE action \in FormDataActions ->
         IF payload = "empty"
         THEN HThrow(<<action>>, Err("TypeError: Cannot read properties", ""))
         ELSE HAwait(<<action>>)
    [] action \in FileActions ->
         IF PrepareFileForGemini(file) # NoErr
         THEN HThrow(<<action>>, PrepareFileForGemini(file))
         ELSE HAwait(<<action>>)
    [] action = "generateHeroImage" -> HReturn(<<action>>, TextResult("url", <<"P">>))
    [] action = "generateVideo" ->
         HReturn(<<action>>, OpResult([name |-> now, done |-> FALSE, uri |-> ""]))
    [] action = "getVideosOperation" ->
         HReturn(<<action>>,
                 OpResult(GetVideosOperation(IF payload = "full" THEN operation
                                             ELSE NoOp)))
    [] OTHER -> HAwait(<<action>>)

\* Route with the default case falling through to a handler
RouteDefaultFallsThrough(action, payload, operation, file, now) ==
  IF action \notin FileActions /\ payload = "null"
  THEN HThrow(<<>>, Err("TypeError: Cannot read properties", ""))
  ELSE RunHandler(action, payload, operation, file, now)

\* the switch, lines 51-111: the arguments are read, then the handler called
Route(action, payload, operation, file, now) ==
  IF action \notin Actions
  THEN HThrow(<<>>, Err("Unknown action: ", ToStr(action)))
  ELSE IF action \notin FileActions /\ payload = "null"
  THEN HThrow(<<>>, Err("TypeError: Cannot read properties", ""))
  ELSE RunHandler(action, payload, operation, file, now)

\* lines 22-111: the body is read, then the action routed
HandleUntilAwait(ev, now) ==
  LET parsed == ParseRequest(ev) IN
  IF parsed.ok
  THEN Route(parsed.action, parsed.payload, ev.operation, parsed.file, now)
  ELSE HThrow(<<>>, parsed.err)

\* lines 410-421 of generateRateChangeExplanation
ProseCleanup(rawResponse) ==
  Trim(JoinLines(SelectSeq(SplitLines(Trim(rawResponse), <<>>),
                           LAMBDA line : Tok(Trim(line), 1) # "MC")))

\* a handler from the model's answer to its return or throw
ResumeHandler(action, rejected, text) ==
  IF rejected THEN HThrow(<<>>, Err("model call failed", ""))
  ELSE IF action \in HtmlActions
  THEN HReturn(<<>>, TextResult("html", ExtractHtmlFromResponse(text).html))
  ELSE IF action \in ProseActions
  THEN HReturn(<<>>, TextResult("prose", ProseCleanup(text)))
  ELSE IF ParseJsonFromText(text).ok
  THEN HReturn(<<>>, JsonResult(ParseJsonFromText(text).val))
  ELSE HThrow(<<>>, Err(ParseJsonFromText(text).err, ""))

CorsHeaders ==
  {"Access-Control-Allow-Origin", "Access-Control-Allow-Headers",
   "Access-Control-Allow-Methods"}

Response(status, kind, fields, result, error) ==
  [status |-> status, headers |-> CorsHeaders,
   body |-> [kind |-> kind, fields |-> fields, result |-> result, error |-> error]]

\* lines 113-117: JSON.stringify leaves out a property that is undefined
SuccessEnvelope(result) ==
  Response(200, "json", IF result.t = "undefined" THEN {} ELSE {"result"},
           result, NoErr)

\* FailureEnvelope without the catch block: the exception leaves the handler
\* and the platform answers in its place
FailureUncaught(error) ==
  [status |-> 502, headers |-> {},
   body |-> [kind |-> "uncaught", fields |-> {}, result |-> UndefResult,
             error |-> error]]

\* lines 118-125
FailureEnvelope(error) == Response(500, "json", {"error"}, UndefResult, error)

\* the response for a handler that has returned or thrown
Envelope(h) ==
  IF h.kind = "return" THEN SuccessEnvelope(h.result) ELSE FailureEnvelope(h.error)

\* ------------------------------------------------ specification: dispatcher
VideoNames == {"operations/video-1", "operations/video-2"}

Repeat(elem, n) == [i \in 1..n |-> elem]

RECURSIVE ArrayBody(_, _)
ArrayBody(elem, n) ==
  IF n = 0 THEN <<>>
  ELSE IF n = 1 THEN elem
  ELSE elem \o <<",">> \o ArrayBody(elem, n - 1)

\* the text of a JSON array of n elements
ArrayText(elem, n) == <<"[">> \o ArrayBody(elem, n) \o <<"]">>

Fenced(label, t) == <<label, "N">> \o t \o <<"N", "F">>

ElemTexts == {<<"A">>, <<"{", "K", "A", "}">>}

ArrayCompletions ==
  {ArrayText(e, n) : e \in ElemTexts, n \in 0..MaxElems}
    \cup {Fenced("FJ", ArrayText(e, n)) : e \in ElemTexts, n \in 0..MaxElems}

\* what the model may answer
Completions ==
  ArrayCompletions
    \cup { <<"{", "K", "A", "}">>, <<"P", "S", "{", "K", "Z", "}", "N", "P">>,
           <<"P">>, <<>>, <<"{", "A", "}">>,
           <<"FH", "N", "P", "N", "F">>, <<"HD", "N", "P", "N", "*", "P">>,
           <<"MC", "P", "N", "P">> }

SomeOperations ==
  {NoOp, [name |-> "operations/video-1", done |-> FALSE, uri |-> ""]}

AllActions == Actions \cup {"doSomethingElse", Undefined}

\* the events the platform may hand to the handler
Events ==
  { [NoReq EXCEPT !.method = m] : m \in {"OPTIONS", "GET"} }
    \cup { [NoReq EXCEPT !.method = "POST", !.enc = "json", !.body = b,
                         !.action = Undefined, !.payload = "absent",
                         !.upload = "none"] : b \in {"garbled", "null"} }
    \cup { [method |-> "POST", enc |-> "json", body |-> "object", action |-> a,
            payload |-> p, operation |-> o, upload |-> "none"] :
             a \in AllActions, p \in {"absent", "empty", "full"},
             o \in SomeOperations }
    \cup { [method |-> "POST", enc |-> "multipart", body |-> b, action |-> a,
            payload |-> p, operation |-> NoOp, upload |-> u] :
             b \in {"garbled", "object"}, a \in AllActions,
             p \in {"absent", "null", "empty", "full", "garbled"},
             u \in {"none", "undefined", "emptyString", "emptyBuffer", "bytes"} }

ServerInit ==
  /\ sReq = NoReq /\ sPc = "idle" /\ sInvoked = <<>> /\ sModelCalls = 0
  /\ sCompletion = <<>> /\ sResp = NoResp
  /\ JsonIdle /\ HtmlIdle /\ ClientIdle /\ PoolIdle

\* lines 14-16
Options(ev) ==
  /\ sPc = "idle"
  /\ ev.method = "OPTIONS"
  /\ sReq' = ev
  /\ sResp' = Response(200, "empty", {}, UndefResult, NoErr)
  /\ sPc' = "done"
  /\ UNCHANGED <<sInvoked, sModelCalls, sCompletion, jsonVars, htmlVars, clientVars, pool>>

\* lines 18-20
MethodNotAllowed(ev) ==
  /\ sPc = "idle"
  /\ ev.method \notin {"OPTIONS", "POST"}
  /\ sReq' = ev
  /\ sResp' = Response(405, "text", {}, UndefResult, NoErr)
  /\ sPc' = "done"
  /\ UNCHANGED <<sInvoked, sModelCalls, sCompletion, jsonVars, htmlVars, clientVars, pool>>

\* lines 22-125, up to the response or to the handler's model call
Post(ev, now) ==
  /\ sPc = "idle"
  /\ ev.method = "POST"
  /\ sReq' = ev
  /\ LET h == HandleUntilAwait(ev, now)
     IN /\ sInvoked' = h.invoked
        /\ IF h.kind = "await"
           THEN sPc' = "model" /\ sModelCalls' = 1 /\ sResp' = sResp
           ELSE sPc' = "done" /\ sModelCalls' = 0 /\ sResp' = Envelope(h)
  /\ UNCHANGED <<sCompletion, jsonVars, htmlVars, clientVars, pool>>

\* the awaited generateContent settles: the rest of the handler, lines 113-125
ModelSettles(rejected, text) ==
  /\ sPc = "model"
  /\ sCompletion' = text
  /\ sResp' = Envelope(ResumeHandler(sReq.action, rejected, text))
  /\ sPc' = "done"
  /\ UNCHANGED <<sReq, sInvoked, sModelCalls, jsonVars, htmlVars, clientVars, pool>>

\* the invocation is over; the next event starts from nothing
NextEvent ==
  /\ sPc = "done"
  /\ sReq' = NoReq /\ sPc' = "idle" /\ sInvoked' = <<>> /\ sModelCalls' = 0
  /\ sCompletion' = <<>> /\ sResp' = NoResp
  /\ UNCHANGED <<jsonVars, htmlVars, clientVars, pool>>

ServerNext ==
  \/ \E ev \in Events : Options(ev)
  \/ \E ev \in Events : MethodNotAllowed(ev)
  \/ \E ev \in Events, now \in VideoNames : Post(ev, now)
  \/ \E text \in Completions : ModelSettles(FALSE, text)
  \/ ModelSettles(TRUE, <<>>)
  \/ NextEvent

SpecServer == ServerInit /\ [][ServerNext]_vars

\* ---------------------------------- specification: concurrent invocations
\* the platform runs up to MaxRequests invocations of the handler at a time;
\* pool[i] holds what invocation i has in its own scope: the event, the clock
\* read by Date.now(), where it stands, and what it has done so far
Slots == 1..MaxRequests

FreeSlot ==
  [req |-> NoReq, now |-> "", pc |-> "idle", invoked |-> <<>>, modelCalls |-> 0,
   rejected |-> FALSE, completion |-> <<>>, resp |-> NoResp]

\* POST events of several kinds: handlers with and without a model call,
\* with a file, a stub, an unknown action, a body that does not parse
PoolEvents ==
  { [method |-> "POST", enc |-> "json", body |-> "object", action |-> a,
     payload |-> "full", operation |-> NoOp, upload |-> "none"] :
      a \in {"generateSubjectLines", "generateEmailBody", "generateVideo",
             "doSomethingElse"} }
    \cup { [method |-> "POST", enc |-> "multipart", body |-> "object",
            action |-> "generateSubjectLines", payload |-> "null",
            operation |-> NoOp, upload |-> "none"] }
    \cup { [method |-> "POST", enc |-> "multipart", body |-> "object",
            action |-> "extractCancellationsFromPdf", payload |-> p,
            operation |-> NoOp, upload |-> u] :
             p \in {"empty", "garbled"}, u \in {"none", "bytes"} }

PoolCompletions ==
  { ArrayText(<<"A">>, 1), Fenced("FJ", ArrayText(<<"A">>, 0)), <<"P">>,
    <<"FH", "N", "P", "N", "F">> }

PoolInit ==
  /\ pool = [i \in Slots |-> FreeSlot]
  /\ JsonIdle /\ HtmlIdle /\ ServerIdle /\ ClientIdle

\* LocalsOf with action, payload and file declared at module scope: every
\* invocation reads what the first slot holds
LocalsShared(p, i) == p[1]

\* line 23, let action, payload, file: declared inside the handler, so each
\* invocation reads its own
LocalsOf(p, i) == p[i]

\* lines 22-125 for invocation i, up to the response or to its model call
PoolPost(i, ev, now) ==
  /\ pool[i].pc = "idle"
  /\ LET h == HandleUntilAwait(ev, now)
     IN pool' = [pool EXCEPT ![i] =
          [req |-> ev, now |-> now,
           pc |-> IF h.kind = "await" THEN "model" ELSE "done",
           invoked |-> h.invoked,
           modelCalls |-> IF h.kind = "await" THEN 1 ELSE 0,
           rejected |-> FALSE, completion |-> <<>>,
           resp |-> IF h.kind = "await" THEN NoResp ELSE Envelope(h)]]
  /\ UNCHANGED <<jsonVars, htmlVars, serverVars, clientVars>>

\* the generateContent awaited by invocation i settles: lines 113-125
PoolModelSettles(i, rejected, text) ==
  /\ pool[i].pc = "model"
  /\ pool' = [pool EXCEPT ![i] =
       [@ EXCEPT !.pc = "done", !.rejected = rejected, !.completion = text,
                 !.resp = Envelope(ResumeHandler(LocalsOf(pool, i).req.action,
                                                 rejected, text))]]
  /\ UNCHANGED <<jsonVars, htmlVars, serverVars, clientVars>>

\* invocation i has answered; its slot is free for the next event
PoolAnswered(i) ==
  /\ pool[i].pc = "done"
  /\ pool' = [pool EXCEPT ![i] = FreeSlot]
  /\ UNCHANGED <<jsonVars, htmlVars, serverVars, clientVars>>

PoolNext ==
  \/ \E i \in Slots, ev \in PoolEvents, now \in VideoNames : PoolPost(i, ev, now)
  \/ \E i \in Slots, text \in PoolCompletions : PoolModelSettles(i, FALSE, text)
  \/ \E i \in Slots : PoolModelSettles(i, TRUE, <<>>)
  \/ \E i \in Slots : PoolAnswered(i)

SpecPool == PoolInit /\ [][PoolNext]_vars

\* ---------------------------------------------------------- client facade
\* the exported functions other than generateVideo, by the default each
\* returns in place of an error or a falsy result
ArrayFacades == {"generateSubjectLines", "generatePreheaders", "generateOpportunities"}
StringFacades == {"generateEmailBody", "generateRateChangeExplanation"}
SimpleFacades == Actions \ {"generateVideo", "getVideosOperation"}

NullResult == [t |-> "null", json |-> NoVal, toks |-> <<>>, op |-> NoOp]

Default(fn) ==
  IF fn \in ArrayFacades THEN JsonResult(Arr(<<>>))
  ELSE IF fn \in StringFacades THEN TextResult("fallback", <<"P">>)
  ELSE NullResult

\* JavaScript falsiness of data.result: undefined, null, 0, '', false
Falsy(r) ==
  \/ r.t \in {"undefined", "null"}
  \/ r.t = "json" /\ r.json.k = "falsy"
  \/ r.t \in {"html", "prose", "url", "text"} /\ r.toks = <<>>

\* how a fetch can settle: it rejects, answers with a status that is not OK,
\* answers with a body that is not JSON, or answers with a JSON body
NetReject == [kind |-> "reject", isNull |-> FALSE, result |-> UndefResult]
NetNotOk == [kind |-> "notOk", isNull |-> FALSE, result |-> UndefResult]
NetBadJson == [kind |-> "badJson", isNull |-> FALSE, result |-> UndefResult]
NetJson(isNull, r) == [kind |-> "json", isNull |-> isNull, result |-> r]

\* apiFetch / apiFetchWithFile, lines 4-35: the parsed body, or a throw
ApiFetch(net) ==
  [threw |-> net.kind # "json", isNull |-> net.isNull, result |-> net.result]

Returns(v) == [state |-> "returned", link |-> "", value |-> v]
ReturnsLink(uri) == [state |-> "returned", link |-> uri, value |-> NullResult]
Rejects == [state |-> "rejected", link |-> "", value |-> UndefResult]

\* try { data = await apiFetch(..); return data.result || d } catch { return d }
FacadeReturn(fn, fetched) ==
  IF fetched.threw \/ fetched.isNull \/ Falsy(fetched.result)
  THEN Returns(Default(fn))
  ELSE Returns(fetched.result)

\* ----------------------------------------------------- client generateVideo
MsgInit == "Initiating video generation..."
MsgQueue == "Video is in the queue. This may take a few minutes..."
MsgRender == "AI is rendering your video..."
MsgDone == "Processing complete!"
MsgError == "Error during video generation."
ProgressMessages == {MsgInit, MsgQueue, MsgRender, MsgDone, MsgError}

\* where generateVideo stands after a step
Step(pc, op, log, ret) == [pc |-> pc, op |-> op, log |-> log, ret |-> ret]

\* lines 128-132: the catch block; throws is the set of messages on which
\* this invocation of onProgress throws
CatchBlock(op, log, throws) ==
  Step("done", op, Append(log, MsgError),
       IF MsgError \in throws THEN Rejects ELSE ReturnsLink(""))

\* lines 118-127
Finish(op, log, throws) ==
  IF MsgDone \in throws THEN CatchBlock(op, Append(log, MsgDone), throws)
  ELSE Step("done", op, Append(log, MsgDone), ReturnsLink(op.uri))

\* LoopContinues for a loop that is never entered
LoopNeverEntered(op) == FALSE

\* line 111: while (!operation.done)
LoopContinues(op) == ~op.done

\* lines 111-127 from the loop test on
LoopOrFinish(op, log, throws) ==
  IF LoopContinues(op) THEN Step("delay", op, log, NoRet)
  ELSE Finish(op, log, throws)

\* the operation read from data.result: a string, a number, an array have no
\* name and no done; reading a property of undefined or null throws
AsOperation(r) == IF r.t = "operation" THEN r.op ELSE NoOp

\* lines 98-102
VideoCallStep(prompt, throws) ==
  IF prompt = "" THEN Step("done", NoOp, <<>>, ReturnsLink(""))
  ELSE IF MsgInit \in throws THEN CatchBlock(NoOp, <<MsgInit>>, throws)
  ELSE Step("awaitStart", NoOp, <<MsgInit, "request:generateVideo">>, NoRet)

\* lines 102-111
StartSettlesStep(log, net, throws) ==
  LET fetched == ApiFetch(net)
      operation == AsOperation(fetched.result)
      failed == Append(log, "settled:failed")
      okLog == Append(log, "settled:ok")
  IN IF fetched.threw THEN CatchBlock(NoOp, failed, throws)
     ELSE IF fetched.isNull THEN CatchBlock(NoOp, okLog, throws)
     ELSE IF Falsy(fetched.result) \/ operation.name = ""
     THEN CatchBlock(NoOp, okLog, throws)
     ELSE IF MsgQueue \in throws
     THEN CatchBlock(operation,
                     okLog \o <<IF operation.done THEN "operation:done"
                                ELSE "operation:pending", MsgQueue>>,
                     throws)
     ELSE LoopOrFinish(operation,
                       okLog \o <<IF operation.done THEN "operation:done"
                                  ELSE "operation:pending", MsgQueue>>,
                       throws)

\* lines 112-114
TimerFiresStep(op, log, throws) ==
  IF MsgRender \in throws
  THEN CatchBlock(op, log \o <<"delay", MsgRender>>, throws)
  ELSE Step("awaitPoll", op,
            log \o <<"delay", MsgRender, "request:getVideosOperation">>, NoRet)

\* lines 114-116 and the loop test
PollSettlesStep(op, log, net, throws) ==
  LET fetched == ApiFetch(net)
      operation == AsOperation(fetched.result)
      okLog == Append(log, "settled:ok")
  IN IF fetched.threw THEN CatchBlock(op, Append(log, "settled:failed"), throws)
     ELSE IF fetched.isNull \/ fetched.result.t \in {"undefined", "null"}
     THEN CatchBlock(op, okLog, throws)
     ELSE LoopOrFinish(operation,
                       Append(okLog, IF operation.done THEN "operation:done"
                                     ELSE "operation:pending"),
                       throws)

Count(log, e) == Cardinality({i \in 1..Len(log) : log[i] = e})

\* --------------------------------------------- specification: client facade
ClientInit ==
  /\ cPc = "idle" /\ cFn = "" /\ cOp = NoOp /\ cLog = <<>> /\ cRet = NoRet
  /\ JsonIdle /\ HtmlIdle /\ ServerIdle /\ PoolIdle

Others == <<jsonVars, htmlVars, serverVars, pool>>

\* what a response body's result may be
ClientResults ==
  {UndefResult, NullResult, JsonResult(Atom("Z")), JsonResult(Atom("A")),
   JsonResult(Arr(<<>>)), JsonResult(Arr(<<Atom("A")>>)),
   JsonResult(Obj(<<Atom("A")>>)), TextResult("html", <<>>),
   TextResult("html", <<"P">>)}
    \cup {OpResult([name |-> n, done |-> d, uri |-> u]) :
            n \in {"", "operations/video-1"}, d \in BOOLEAN, u \in {"", MockUri}}

NetOutcomes ==
  {NetReject, NetNotOk, NetBadJson, NetJson(TRUE, UndefResult)}
    \cup {NetJson(FALSE, r) : r \in ClientResults}

\* a facade function is called: lines 37-96 and 135-244 up to the fetch
FacadeCall(fn, arg) ==
  /\ cPc = "idle"
  /\ cFn' = fn /\ cOp' = NoOp
  /\ IF fn = "generateHeroImage" /\ arg = "missing"
     THEN cPc' = "done" /\ cLog' = <<>> /\ cRet' = Returns(NullResult)
     ELSE IF fn \in FileActions /\ arg = "missing"
     THEN cPc' = "done" /\ cLog' = <<>> /\ cRet' = Returns(Default(fn))
     ELSE cPc' = "awaitFetch" /\ cLog' = <<"request">> /\ cRet' = NoRet
  /\ UNCHANGED Others

\* the awaited apiFetch settles: the rest of the facade function
FacadeSettles(net) ==
  /\ cPc = "awaitFetch"
  /\ cPc' = "done"
  /\ cRet' = FacadeReturn(cFn, ApiFetch(net))
  /\ cLog' = Append(cLog, IF net.kind = "json" THEN "settled:ok" ELSE "settled:failed")
  /\ UNCHANGED <<cFn, cOp>>
  /\ UNCHANGED Others

Take(step) ==
  /\ cPc' = step.pc /\ cOp' = step.op /\ cLog' = step.log /\ cRet' = step.ret

VideoCall(prompt, throws) ==
  /\ cPc = "idle"
  /\ cFn' = "generateVideo"
  /\ Take(VideoCallStep(prompt, throws))
  /\ UNCHANGED Others

StartSettles(net, throws) ==
  /\ cPc = "awaitStart"
  /\ Take(StartSettlesStep(cLog, net, throws))
  /\ UNCHANGED cFn
  /\ UNCHANGED Others

\* the 10 s timer of line 112 fires
TimerFires(throws) ==
  /\ cPc = "delay"
  /\ Count(cLog, "delay") < MaxPolls
  /\ Take(TimerFiresStep(cOp, cLog, throws))
  /\ UNCHANGED cFn
  /\ UNCHANGED Others

PollSettles(net, throws) ==
  /\ cPc = "awaitPoll"
  /\ Take(PollSettlesStep(cOp, cLog, net, throws))
  /\ UNCHANGED cFn
  /\ UNCHANGED Others

\* the caller has its value; the next call starts from nothing
NextCall ==
  /\ cPc = "done"
  /\ cPc' = "idle" /\ cFn' = "" /\ cOp' = NoOp /\ cLog' = <<>> /\ cRet' = NoRet
  /\ UNCHANGED Others

Prompts == {"", "a sunrise"}

ClientNext ==
  \/ \E fn \in SimpleFacades, arg \in {"given", "missing"} : FacadeCall(fn, arg)
  \/ \E net \in NetOutcomes : FacadeSettles(net)
  \/ \E p \in Prompts, throws \in SUBSET ProgressMessages : VideoCall(p, throws)
  \/ \E net \in NetOutcomes, throws \in SUBSET ProgressMessages : StartSettles(net, throws)
  \/ \E throws \in SUBSET ProgressMessages : TimerFires(throws)
  \/ \E net \in NetOutcomes, throws \in SUBSET ProgressMessages : PollSettles(net, throws)
  \/ NextCall

SpecClient == ClientInit /\ [][ClientNext]_vars

\* ------------------------- specification: client facade and dispatcher
\* the request apiFetch and apiFetchWithFile send for the facade function or
\* the step of generateVideo that is waiting: POST with a JSON body {action,
\* payload}, or multipart with action, payload '{}' and the file
ClientEvent(upload) ==
  IF cPc = "awaitStart"
  THEN [method |-> "POST", enc |-> "json", body |-> "object",
        action |-> "generateVideo", payload |-> "full", operation |-> NoOp,
        upload |-> "none"]
  ELSE IF cPc = "awaitPoll"
  THEN [method |-> "POST", enc |-> "json", body |-> "object",
        action |-> "getVideosOperation", payload |-> "full", operation |-> cOp,
        upload |-> "none"]
  ELSE IF cFn \in FileActions
  THEN [method |-> "POST", enc |-> "multipart", body |-> "object",
        action |-> cFn, payload |-> "empty", operation |-> NoOp,
        upload |-> upload]
  ELSE [method |-> "POST", enc |-> "json", body |-> "object", action |-> cFn,
        payload |-> "full", operation |-> NoOp, upload |-> "none"]

\* how fetch sees a response of the dispatcher: response.ok, response.json()
ToNet(resp) ==
  IF resp.status = 200
  THEN NetJson(FALSE, IF "result" \in resp.body.fields THEN resp.body.result
                      ELSE UndefResult)
  ELSE NetNotOk

Waiting == cPc \in {"awaitFetch", "awaitStart", "awaitPoll"}

SystemInit ==
  /\ cPc = "idle" /\ cFn = "" /\ cOp = NoOp /\ cLog = <<>> /\ cRet = NoRet
  /\ sReq = NoReq /\ sPc = "idle" /\ sInvoked = <<>> /\ sModelCalls = 0
  /\ sCompletion = <<>> /\ sResp = NoResp
  /\ JsonIdle /\ HtmlIdle /\ PoolIdle

\* the request of the waiting client reaches the dispatcher
Serve(upload, now) ==
  /\ Waiting
  /\ Post(ClientEvent(upload), now)

ServerReset ==
  /\ sReq' = NoReq /\ sPc' = "idle" /\ sInvoked' = <<>> /\ sModelCalls' = 0
  /\ sCompletion' = <<>> /\ sResp' = NoResp

\* the waiting client's fetch settles with net
ClientSettles(net, throws) ==
  /\ UNCHANGED cFn
  /\ CASE cPc = "awaitFetch" ->
            /\ cPc' = "done" /\ cOp' = cOp
            /\ cRet' = FacadeReturn(cFn, ApiFetch(net))
            /\ cLog' = Append(cLog, IF net.kind = "json" THEN "settled:ok"
                                    ELSE "settled:failed")
       [] cPc = "awaitStart" -> Take(StartSettlesStep(cLog, net, throws))
       [] cPc = "awaitPoll" -> Take(PollSettlesStep(cOp, cLog, net, throws))

\* the dispatcher's response reaches the client
Deliver(throws) ==
  /\ Waiting /\ sPc = "done"
  /\ ClientSettles(ToNet(sResp), throws)
  /\ ServerReset
  /\ UNCHANGED <<jsonVars, htmlVars, pool>>

\* the connection fails: fetch rejects, whatever the dispatcher was doing
TransportFails(throws) ==
  /\ Waiting
  /\ ClientSettles(NetReject, throws)
  /\ ServerReset
  /\ UNCHANGED <<jsonVars, htmlVars, pool>>

SystemNext ==
  \/ \E fn \in SimpleFacades, arg \in {"given", "missing"} : FacadeCall(fn, arg)
  \/ \E p \in Prompts, throws \in SUBSET ProgressMessages : VideoCall(p, throws)
  \/ \E u \in {"bytes", "emptyBuffer"}, now \in VideoNames : Serve(u, now)
  \/ \E text \in Completions : ModelSettles(FALSE, text)
  \/ ModelSettles(TRUE, <<>>)
  \/ \E throws \in SUBSET ProgressMessages : Deliver(throws)
  \/ \E throws \in SUBSET ProgressMessages : TransportFails(throws)
  \/ \E throws \in SUBSET ProgressMessages : TimerFires(throws)
  \/ NextCall

SpecSystem == SystemInit /\ [][SystemNext]_vars

\* ------------------------------------------------ claims on the dispatcher
\* the body was read without a throw: lines 28-47 ran to the end
BodyParses(ev) == ev.body = "object" /\ ev.payload # "garbled"

IsFailure(resp) ==
  /\ resp.status = 500 /\ resp.body.kind = "json"
  /\ resp.body.fields = {"error"}

IsSuccess(resp) ==
  /\ resp.status = 200 /\ resp.body.kind = "json"
  /\ resp.body.fields = {"result"} /\ resp.body.error = NoErr

\* C1 (as claimed): every POST whose action is not a case of the switch ends
\* in a failure envelope whose message contains the action's name, with no
\* handler invoked and no model call made.
C1_UnknownNamedAlways ==
  (sReq.method = "POST" /\ sReq.action \notin Actions) =>
    /\ sPc = "done"
    /\ IsFailure(sResp)
    /\ sResp.body.error.arg = ToStr(sReq.action)
    /\ sInvoked = <<>> /\ sModelCalls = 0

\* C1 (amended): every POST whose action is not a case of the switch ends in
\* a failure envelope with no handler invoked and no model call made; when
\* the body was read without a throw the message is 'Unknown action: '
\* followed by the action's name ('undefined' for a missing action).
C1_UnknownNamedWhenParsed ==
  (sReq.method = "POST" /\ sReq.action \notin Actions) =>
    /\ sPc = "done"
    /\ IsFailure(sResp)
    /\ sInvoked = <<>> /\ sModelCalls = 0
    /\ BodyParses(sReq) =>
         sResp.body.error = Err("Unknown action: ", ToStr(sReq.action))

\* an unknown action sent as multipart with a file: named in the message
C1_Witness ==
  /\ sPc = "done" /\ sReq.method = "POST"
  /\ sReq.action = "doSomethingElse" /\ sReq.upload = "bytes"
  /\ sResp.body.error = Err("Unknown action: ", "doSomethingElse")

\* C2 (as claimed): when a handler that needs a file is called for a request
\* with no attachment, or with an attachment of zero bytes, it throws 'No
\* file provided' or 'File content is missing', no model call is made and
\* the request ends in a failure envelope.
C2_NoFileNoModelCall ==
  ( /\ sInvoked # <<>> /\ sReq.action \in FileActions
    /\ \/ sReq.enc = "json"
       \/ sReq.upload \in {"none", "emptyString", "emptyBuffer"} )
    => /\ sModelCalls = 0
       /\ sPc = "done"
       /\ IsFailure(sResp)
       /\ sResp.body.error.text \in {"No file provided", "File content is missing"}

\* C3: every response carries the three CORS headers; OPTIONS gets 200 with
\* an empty body, any other method but POST gets 405, and a POST gets either
\* 200 with {result} and no error or 500 with {error} and no result.
C3_ResponseShapes ==
  sPc = "done" =>
    /\ sResp.headers = CorsHeaders
    /\ sReq.method = "OPTIONS" =>
         sResp.status = 200 /\ sResp.body.kind = "empty"
    /\ sReq.method \notin {"OPTIONS", "POST"} => sResp.status = 405
    /\ sReq.method = "POST" =>
         /\ IsSuccess(sResp) \/ IsFailure(sResp)
         /\ sResp.body.error # NoErr => IsFailure(sResp)
         /\ ~BodyParses(sReq) => IsFailure(sResp)

\* a model call that failed, answered with the failure envelope
C3_Witness ==
  /\ sPc = "done" /\ sReq.method = "POST" /\ sModelCalls = 1
  /\ IsFailure(sResp)
  /\ sResp.body.error.text = "model call failed"

ArrayActions ==
  {"extractCancellationsFromPdf", "generateSubjectLines", "generatePreheaders",
   "generateOpportunities"}

ElemValue(e) == IF e = <<"A">> THEN Atom("A") ELSE Obj(<<Atom("A")>>)

\* C9 (as claimed): when the completion of an array-returning action is a
\* JSON array of n elements, fenced as json or not, the dispatcher answers
\* 200 with {result: that n-element array}.
C9_ArrayReturned ==
  \A e \in ElemTexts, n \in 0..MaxElems :
    ( /\ sPc = "done" /\ sModelCalls = 1 /\ sReq.action \in ArrayActions
      /\ sCompletion \in {ArrayText(e, n), Fenced("FJ", ArrayText(e, n))} )
      => /\ IsSuccess(sResp)
         /\ sResp.body.result = JsonResult(Arr(Repeat(ElemValue(e), n)))

\* C9, the part the code keeps: the same for a completion fenced as json
C9_FencedArrayReturned ==
  \A e \in ElemTexts, n \in 0..MaxElems :
    ( /\ sPc = "done" /\ sModelCalls = 1 /\ sReq.action \in ArrayActions
      /\ sCompletion = Fenced("FJ", ArrayText(e, n)) )
      => /\ IsSuccess(sResp)
         /\ sResp.body.result = JsonResult(Arr(Repeat(ElemValue(e), n)))

\* the envelope of a request handled with nothing else in flight: a function
\* of its event, its clock reading and the settling of its model call
Alone(ev, now, rejected, text) ==
  LET h == HandleUntilAwait(ev, now)
  IN IF h.kind = "await" THEN Envelope(ResumeHandler(ev.action, rejected, text))
     ELSE Envelope(h)

\* the arguments of the handler's call can be read: payload.formData and the
\* like throw when the payload is null
RoutesToHandler(ev) ==
  /\ BodyParses(ev) /\ ev.action \in Actions
  /\ ~(ev.action \notin FileActions /\ ev.enc = "multipart" /\ ev.payload = "null")

\* what C13 says of an invocation apart from the number of handlers invoked
NoRetryNoSharing(r) ==
  /\ r.modelCalls <= 1
  /\ Len(r.invoked) <= 1
  /\ r.invoked # <<>> => r.invoked = <<r.req.action>>
  /\ r.pc = "model" => r.modelCalls = 1 /\ r.resp = NoResp
  /\ r.pc = "done" =>
       /\ IsSuccess(r.resp) \/ IsFailure(r.resp)
       /\ IsFailure(r.resp) => r.resp.body.result = UndefResult
       /\ r.rejected => r.modelCalls = 1 /\ IsFailure(r.resp)
       /\ r.invoked = <<>> => r.modelCalls = 0 /\ IsFailure(r.resp)
       /\ r.resp = Alone(r.req, r.now, r.rejected, r.completion)

InFlight(r) == r.pc \in {"model", "done"}

\* C13 as stated: every POST invokes exactly one handler, none when its
\* action is unknown; at most one model call, no retry, no result beside an
\* error; the envelope depends on the request's own input and completion only.
C13_OneHandlerEveryPost ==
  \A i \in DOMAIN pool :
    InFlight(pool[i]) =>
      /\ Len(pool[i].invoked) = (IF pool[i].req.action \in Actions THEN 1 ELSE 0)
      /\ NoRetryNoSharing(pool[i])

\* C13 amended: a POST invokes exactly one handler when its body parses, its
\* action is known and the handler's arguments can be read, and none
\* otherwise; at most one model call, no retry, no result beside an error;
\* under any interleaving the envelope is the one the request gets alone.
C13_OneHandlerWhenRouted ==
  \A i \in DOMAIN pool :
    InFlight(pool[i]) =>
      /\ Len(pool[i].invoked) = (IF RoutesToHandler(pool[i].req) THEN 1 ELSE 0)
      /\ NoRetryNoSharing(pool[i])

\* two invocations overlap: the second has answered from its own completion
\* while the first, for another action, still awaits its model call
C13_Witness ==
  /\ pool # <<>>
  /\ pool[1].pc = "model" /\ pool[2].pc = "done"
  /\ pool[2].modelCalls = 1 /\ IsSuccess(pool[2].resp)
  /\ pool[1].req.action # pool[2].req.action

\* ------------------------------------------------ claims on JSON extraction
\* tokens i+1 .. j-1 of text are the interior of a fenced block opened by the
\* label at i and closed by the nearest three backticks at j
IsBlock(text, label, i, j) ==
  /\ i < j
  /\ text[i] = label
  /\ text[j] \in FenceTokens
  /\ \A k \in (i + 1)..(j - 1) : text[k] \notin FenceTokens

Interior(text, i, j) == SubSeq(text, i + 1, j - 1)

Positions(text) == 1..Len(text)

\* C7 (as claimed): whenever the completion contains a block labeled json
\* whose interior X parses as JSON, parseJsonFromText returns the value of X.
C7_AnyJsonFence ==
  jPhase = "extracted" =>
    \A i, j \in Positions(jText) :
      (IsBlock(jText, "FJ", i, j) /\ JsonParse(Interior(jText, i, j)).ok)
        => jOut = JsonParse(Interior(jText, i, j))

\* C7 (amended): whenever the FIRST block labeled json of the completion has
\* an interior X that parses as JSON, parseJsonFromText returns the value of
\* X, whatever precedes or follows the block and whatever kind of value X is.
C7_FirstJsonFence ==
  jPhase = "extracted" =>
    \A i, j \in Positions(jText) :
      ( /\ IsBlock(jText, "FJ", i, j)
        /\ \A h \in 1..(i - 1) : jText[h] # "FJ"
        /\ JsonParse(Interior(jText, i, j)).ok )
        => jOut = JsonParse(Interior(jText, i, j))

\* a falsy value in the first json block, with a brace span before the block
C7_Witness ==
  /\ jPhase = "extracted"
  /\ \E i, j \in Positions(jText) :
       /\ IsBlock(jText, "FJ", i, j)
       /\ \E h \in 1..(i - 1) : jText[h] = "{"
       /\ \A h \in 1..(i - 1) : jText[h] # "FJ"
       /\ JsonParse(Interior(jText, i, j)).ok
       /\ jOut.ok /\ jOut.val.k = "falsy"

\* C8 (as claimed): parseJsonFromText either returns a parsed value or fails
\* with the 'No valid JSON found in response' error, also when the matched
\* text does not parse.
C8_TwoOutcomes ==
  jPhase = "extracted" =>
    (jOut.ok \/ jOut.err = "No valid JSON found in response")

\* ------------------------------------------------ claims on HTML extraction
\* the pattern of strategy 1, 2, 3 occurs somewhere in the text
HasHtmlFence(text) ==
  \E i, j \in Positions(text) : i < j /\ text[i] = "FH" /\ text[j] \in FenceTokens

HasDocument(text) ==
  \E i, j \in Positions(text) : i < j /\ text[i] = "HO" /\ text[j] = "HC"

HasTable(text) ==
  \E i, j \in Positions(text) : i < j /\ text[i] = "TO" /\ text[j] = "TC"

IsTrimmed(s) == s = <<>> \/ (~IsWs(s[1]) /\ ~IsWs(s[Len(s)]))

\* C10: extractHtmlFromResponse applies exactly one strategy, the first in
\* the order fence, document, table, cleanup whose pattern occurs anywhere in
\* the completion; the result of strategies 1-3 is the matched span itself
\* (no line is dropped from it, no heading stripped); the output is trimmed.
C10_FixedPrecedence ==
  hPhase = "extracted" =>
    /\ hOut.via = (IF HasHtmlFence(hText) THEN 1
                   ELSE IF HasDocument(hText) THEN 2
                   ELSE IF HasTable(hText) THEN 3 ELSE 4)
    /\ IsTrimmed(hOut.html)
    /\ hOut.via = 1 =>
         \E i, j \in Positions(hText) :
           IsBlock(hText, "FH", i, j) /\ hOut.html = Trim(Interior(hText, i, j))
    /\ hOut.via = 2 =>
         \E i, j \in Positions(hText) :
           /\ i < j /\ hText[i] \in {"DT", "HO"} /\ hText[j] = "HC"
           /\ hOut.html = SubSeq(hText, i, j)
    /\ hOut.via = 3 =>
         \E i, j \in Positions(hText) :
           /\ i < j /\ hText[i] = "TO" /\ hText[j] = "TC"
           /\ hOut.html = SubSeq(hText, i, j)
    /\ hOut.via = 4 =>
         \A k \in 1..Len(hOut.html) :
           /\ hOut.html[k] \notin FenceTokens \cup {"RS"}
           /\ \E h \in Positions(hText) : hText[h] = hOut.html[k]

\* an ambiguous completion: a document that holds a table; the document wins
\* over the table and is returned whole
C10_Witness ==
  /\ hPhase = "extracted"
  /\ hOut.via = 2
  /\ HasTable(hText)
  /\ hOut.html = hText

\* p is where a document can open: <html with a </html> after it, or
\* <!DOCTYPE with such an <html after it
OpensDocument(text, p) ==
  \E h, c \in Positions(text) :
    /\ p <= h /\ h < c /\ text[h] = "HO" /\ text[c] = "HC"
    /\ text[p] = "HO" => h = p
    /\ text[p] \in {"DT", "HO"}

\* the span from a, where the document opens, to b, the first </html> after
\* the first <html at or after a
IsDocumentSpan(text, a, b) ==
  /\ OpensDocument(text, a)
  /\ \A q \in 1..(a - 1) : ~OpensDocument(text, q)
  /\ text[b] = "HC"
  /\ \E h \in a..(b - 1) :
       /\ text[h] = "HO"
       /\ \A k \in a..(h - 1) : text[k] # "HO"
       /\ \A k \in (h + 1)..(b - 1) : text[k] # "HC"

\* C11 as stated: whenever the completion contains a document, the result is
\* that document's span, whatever else the completion contains.
C11_DocumentAlways ==
  (hPhase = "extracted" /\ HasDocument(hText)) =>
    \E a, b \in Positions(hText) :
      IsDocumentSpan(hText, a, b) /\ hOut.html = SubSeq(hText, a, b)

\* C11 amended: whenever the completion contains a document and no fenced
\* html block, the result is the span from the leftmost place a document
\* opens (its <!DOCTYPE when it has one) to the first </html> after its
\* <html, unchanged; tables and commentary around or inside it change nothing.
C11_DocumentWhenUnfenced ==
  (hPhase = "extracted" /\ HasDocument(hText) /\ ~HasHtmlFence(hText)) =>
    \E a, b \in Positions(hText) :
      IsDocumentSpan(hText, a, b) /\ hOut.html = SubSeq(hText, a, b)

\* a document after commentary and followed by a second </html>
C11_Witness ==
  /\ hPhase = "extracted"
  /\ ~HasHtmlFence(hText)
  /\ Len(hText) = 4 /\ hText[1] = "P" /\ hText[4] = "HC"
  /\ hOut.html = SubSeq(hText, 2, 3)
  /\ hOut.html = <<"HO", "HC">>

\* the line of text that position k lies on, a newline counting with the
\* line it opens
LineOf(text, k) ==
  LET first == IF text[k] = "N" THEN k + 1 ELSE FindLast(text, k, {"N"}) + 1
      nl == FindFrom(text, first, {"N"})
      last == IF nl = 0 THEN Len(text) ELSE nl - 1
  IN SubSeq(text, first, last)

\* a line the cleanup takes for commentary
IsCommentary(line) ==
  \/ \E k \in 1..Len(line) :
       /\ line[k] \in {"*", "#", "KI", "BS", "IM"}
       /\ \A q \in 1..(k - 1) : line[q] = "S"
  \/ \E k \in 1..Len(line) : line[k] = "RS"

RECURSIVE WithoutCommentary(_, _)
\* the tokens of text from position k on that are not on a commentary line
WithoutCommentary(text, k) ==
  IF k > Len(text) THEN <<>>
  ELSE IF IsCommentary(LineOf(text, k)) THEN WithoutCommentary(text, k + 1)
  ELSE <<text[k]>> \o WithoutCommentary(text, k + 1)

BeginsWithHeading(text) == Len(text) >= 2 /\ text[1] = "HD"

\* C12 as stated: of a completion that begins with a domain heading, the
\* result is the body after that heading, whole, whatever the body holds: a
\* table, further headings, bullet lines (here for bodies without a fence
\* marker).
C12_HeadingOnlyRemoved ==
  ( /\ hPhase = "extracted" /\ BeginsWithHeading(hText)
    /\ \A k \in Positions(hText) : hText[k] \notin FenceTokens ) =>
    hOut.html = Trim(Tail(hText))

\* C12 amended: of a completion that begins with a domain heading, has no
\* fence marker, document or table, and whose first line is not commentary,
\* the result is the body after that heading less its commentary lines, in
\* order and trimmed: a second heading stays, as does every other line.
C12_HeadingAndCommentaryRemoved ==
  ( /\ hPhase = "extracted" /\ BeginsWithHeading(hText)
    /\ \A k \in Positions(hText) : hText[k] \notin FenceTokens
    /\ ~HasDocument(hText) /\ ~HasTable(hText)
    /\ ~IsCommentary(LineOf(hText, 1)) ) =>
    /\ hOut.html = Trim(WithoutCommentary(hText, 2))
    /\ (\A k \in Positions(hText) : ~IsCommentary(LineOf(hText, k))) =>
         hOut.html = Trim(Tail(hText))

\* a heading, a second heading, then a bullet line: the second heading is
\* all that is returned
C12_Witness ==
  /\ hPhase = "extracted"
  /\ hText = <<"HD", "HD", "N", "*">>
  /\ hOut.html = <<"HD">>

\* -------------------------------------------------- claims on the client
VideoDone == cPc = "done" /\ cFn = "generateVideo" /\ cLog # <<>>

FirstIndex(log, es) ==
  LET hits == {i \in 1..Len(log) : log[i] \in es}
  IN IF hits = {} THEN 0 ELSE CHOOSE i \in hits : \A j \in hits : i <= j

OperationEntries == {"operation:pending", "operation:done"}

StartedPending ==
  LET i == FirstIndex(cLog, OperationEntries)
  IN i > 0 /\ cLog[i] = "operation:pending"

LastOperationEntry ==
  LET hits == {i \in 1..Len(cLog) : cLog[i] \in OperationEntries}
  IN IF hits = {} THEN "none"
     ELSE cLog[CHOOSE i \in hits : \A j \in hits : j <= i]

\* C4: every facade function, for every outcome of the network call and, for
\* generateVideo, for every behaviour of onProgress and of each poll response,
\* never rejects to its caller: it resolves with the fetched result or with
\* the function's fixed default.
C4_NeverRejects ==
  cPc = "done" =>
    /\ cRet.state = "returned"
    /\ cFn \in SimpleFacades =>
         \/ cRet.value = Default(cFn)
         \/ cRet.value = NullResult
         \/ ~Falsy(cRet.value)

\* C5: when generateVideo returns a URI, the operation it was read from has
\* done = TRUE and is the last one received; and when the start request
\* answered with an operation that was not done, a delay, then a
\* getVideosOperation request that settled, came before the return.
C5_PollBeforeUri ==
  (cPc = "done" /\ cFn = "generateVideo" /\ cRet.link # "") =>
    /\ cRet.state = "returned"
    /\ cOp.done /\ cRet.link = cOp.uri
    /\ LastOperationEntry = "operation:done"
    /\ StartedPending =>
         \E i \in 1..Len(cLog) : \E j \in (i + 1)..Len(cLog) :
           /\ cLog[i] = "delay"
           /\ cLog[j] = "request:getVideosOperation"
           /\ j < Len(cLog) /\ cLog[j + 1] = "settled:ok"
           /\ FirstIndex(cLog, OperationEntries) < i

\* a URI returned after a start operation that was not done and two polls
C5_Witness ==
  /\ cPc = "done" /\ cFn = "generateVideo" /\ cRet.link = MockUri
  /\ StartedPending
  /\ Count(cLog, "request:getVideosOperation") = 2

\* C6: generateVideo against the dispatcher's stubs, with a non-empty prompt:
\* when no request failed and the catch block was not entered, there was one
\* start request and one poll request, the operation polled kept its name and
\* came back done, and the placeholder URI is returned; in every other case
\* the call returns null.
C6_StubbedVideoTerminates ==
  VideoDone =>
    IF Count(cLog, "settled:failed") = 0 /\ Count(cLog, MsgError) = 0
    THEN /\ Count(cLog, "request:generateVideo") = 1
         /\ Count(cLog, "request:getVideosOperation") = 1
         /\ cOp.done /\ cOp.name \in VideoNames
         /\ cRet = ReturnsLink(MockUri)
    ELSE cRet = ReturnsLink("")

\* the messages onProgress was called with, in order
Callbacks == SelectSeq(cLog, LAMBDA e : e \in ProgressMessages)

Before(k, e) == k > 1 /\ cLog[k - 1] = e

\* the order of the callbacks among the requests, the responses and the delays
CallbackOrder ==
  \A k \in 1..Len(cLog) :
    /\ cLog[k] = MsgInit => k = 1
    /\ cLog[k] = "request:generateVideo" => Before(k, MsgInit)
    /\ cLog[k] = MsgQueue =>
         /\ k > 3 /\ cLog[k - 1] \in OperationEntries
         /\ cLog[k - 2] = "settled:ok" /\ cLog[k - 3] = "request:generateVideo"
    /\ cLog[k] = MsgRender => Before(k, "delay")
    /\ cLog[k] = "delay" => k < Len(cLog) /\ cLog[k + 1] = MsgRender
    /\ cLog[k] = "request:getVideosOperation" => Before(k, MsgRender)
    /\ cLog[k] = MsgDone =>
         \E d \in 1..(k - 1) :
           /\ cLog[d] = "operation:done"
           /\ \A q \in (d + 1)..(k - 1) : cLog[q] \notin OperationEntries

Reported(m) == \E k \in 1..Len(cLog) : cLog[k] = m

\* C14: the callbacks come in the fixed order; on any failure (a request
\* that failed, or the error message reported) the last callback is the
\* error message and the result is null; 'Processing complete!' and the error
\* message are never both reported in one call; with an empty prompt the
\* result is null with no callback and no request.
C14_CallbackProtocol ==
  (cPc = "done" /\ cFn = "generateVideo") =>
    /\ CallbackOrder
    /\ cLog = <<>> => cRet = ReturnsLink("")
    /\ (Reported("settled:failed") \/ Reported(MsgError)) =>
         /\ Callbacks[Len(Callbacks)] = MsgError
         /\ cRet = ReturnsLink("")
    /\ ~(Reported(MsgDone) /\ Reported(MsgError))

====
